---- MODULE Spec2Model ----
(***************************************************************************)
(* Model of installer_verify.py: the orchestrator main() and the step      *)
(* functions download_installer, sanity_check, silent_install,             *)
(* validate_install and uninstall, over an abstract file system.           *)
(***************************************************************************)
EXTENDS Integers, Sequences, FiniteSets, TLC

\* ------------------------------------------------------------------ bounds
\* largest retries argument explored for download_installer called on its own
MaxRetries == 2
\* file contents are 0 (zero-length) or 1..MaxContent
MaxContent == 2

\* ------------------------------------------------------- program constants
EXIT_SUCCESS == 0
EXIT_DOWNLOAD_FAIL == 2
EXIT_INSTALL_FAIL == 3
EXIT_VALIDATE_FAIL == 4
EXIT_EXCEPTION == 9
\* download_installer(..., retries=2, backoff=2, ...)
DefaultRetries == 2

VARIABLES
    args,         \* parsed command line: build_url, uninstall, dry_run, force_exception
    fs,           \* the paths the acquirer touches: "src", "dest", "old"
    inst,         \* the install directory
    perm,         \* what the file system lets the process do to the install directory
    pc,           \* position in main / download_installer
    checks_run,   \* main's checks_run list
    status_code,  \* main's status_code
    branch,       \* which arm of the if/elif chain of main was entered
    calls,        \* step functions called so far, with how each ended
    fault,        \* the exception raised inside main's try block ("none": none so far)
    summary,      \* the summary file: sequence of records written with json.dump
    exit_code,    \* argument of sys.exit (-1: process still running)
    retries,      \* download_installer's retries argument
    attempt,      \* download_installer's attempt counter
    dl_events,    \* what download_installer did: "ok", "fail", "wait"
    dl_log,       \* attempt numbers logged by logger.error in download_installer
    dl_result,    \* download_installer's return value
    si,           \* the call of silent_install: its arguments and what it returned
    peer          \* a second invocation of the script running at the same time

vars == <<args, fs, inst, perm, pc, checks_run, status_code, branch, calls,
          fault, summary, exit_code, retries, attempt, dl_events, dl_log,
          dl_result, si, peer>>

mainVars == <<checks_run, status_code, branch, calls, fault, summary, exit_code>>
dlVars == <<retries, attempt, dl_events, dl_log, dl_result>>
auxVars == <<si, peer>>

\* ------------------------------------------------------------ file system
Paths == {"src", "dest", "old"}
Contents == 0..MaxContent

Absent == [kind |-> "absent", content |-> 0, target |-> "none"]
File(c) == [kind |-> "file", content |-> c, target |-> "none"]
Link(t) == [kind |-> "link", content |-> 0, target |-> t]

\* the entry a path names after following a symbolic link
Resolve(f, p) == IF f[p].kind = "link" THEN f[p].target ELSE p

\* os.path.exists / os.path.isfile: follow links
Exists(f, p) == f[Resolve(f, p)].kind = "file"
IsFile(f, p) == f[Resolve(f, p)].kind = "file"
\* os.path.lexists: the name itself is taken
LExists(f, p) == f[p].kind # "absent"
\* os.path.getsize, of an existing file
GetSize(f, p) == f[Resolve(f, p)].content
\* the bytes read through a path; -1 when it cannot be opened
ReadThrough(f, p) == IF IsFile(f, p) THEN f[Resolve(f, p)].content ELSE -1

\* os.remove(p): unlink the name
Remove(f, p) == [f EXCEPT ![p] = Absent]
\* open(p, "wb") and write c: goes through a link
WriteThrough(f, p, c) == [f EXCEPT ![Resolve(f, p)] = File(c)]

\* ------------------------------------------------------ download_installer
\* build_url is one of: a remote URL, a local path other than the working
\* artifact path, or the working artifact path itself
Locators == {"http", "src", "dest"}
StartsWithHttp(url) == url = "http"

\* what one urlretrieve call can do: fetch c bytes into dest, raise before
\* writing anything, or raise leaving a truncated file
NetOutcomes == [ok : {TRUE}, wrote : Contents]
               \cup [ok : {FALSE}, wrote : {-1, 0}]

UrlAttempt(f, net) ==
    [ok |-> net.ok,
     fs |-> IF net.wrote >= 0 THEN WriteThrough(f, "dest", net.wrote) ELSE f]

\* the old destination is cleared before the source is looked at
LocalAttempt_RemoveFirst(f, url) ==
    LET g == IF url # "dest" /\ Exists(f, "dest") THEN Remove(f, "dest") ELSE f
    IN  IF ~IsFile(g, url) \/ GetSize(g, url) = 0
        THEN [ok |-> FALSE, fs |-> g]
        ELSE IF url = "dest"
        THEN [ok |-> TRUE, fs |-> g]
        ELSE IF LExists(g, "dest")
        THEN [ok |-> FALSE, fs |-> g]
        ELSE [ok |-> TRUE, fs |-> [g EXCEPT !["dest"] = Link(url)]]
\* the local arm of the try block, lines 44-50
LocalAttempt(f, url) ==
    IF ~IsFile(f, url) \/ GetSize(f, url) = 0
    THEN [ok |-> FALSE, fs |-> f]
    ELSE IF url = "dest"
    THEN [ok |-> TRUE, fs |-> f]
    ELSE LET g == IF Exists(f, "dest") THEN Remove(f, "dest") ELSE f
         IN  IF LExists(g, "dest")
             THEN [ok |-> FALSE, fs |-> g]
             ELSE [ok |-> TRUE, fs |-> [g EXCEPT !["dest"] = Link(url)]]

TryAttempt(f, url, net) ==
    IF StartsWithHttp(url) THEN UrlAttempt(f, net) ELSE LocalAttempt(f, url)

\* the nondeterminism of one attempt: only a remote fetch has any
AttemptInputs(url) ==
    IF StartsWithHttp(url) THEN NetOutcomes ELSE {[ok |-> TRUE, wrote |-> -1]}

LoopGuard_OffByOne(a, r) == a < r
LoopGuard(a, r) == a <= r

Begin(cs, step) == Append(cs, [step |-> step, result |-> "running"])
End(cs, r) == [cs EXCEPT ![Len(cs)].result = r]

\* an attempt that reaches "return True"
DownloadAttemptOk ==
    /\ pc = "dl_loop"
    /\ LoopGuard(attempt, retries)
    /\ \E net \in AttemptInputs(args.build_url) :
         LET r == TryAttempt(fs, args.build_url, net)
         IN  /\ r.ok
             /\ fs' = r.fs
    /\ dl_events' = Append(dl_events, "ok")
    /\ dl_result' = TRUE
    /\ pc' = "dl_ret"
    /\ UNCHANGED <<auxVars, args, inst, perm, mainVars, retries, attempt, dl_log>>

\* the failed attempt is logged and waited for but not counted
DownloadAttemptFail_NoCount ==
    /\ pc = "dl_loop"
    /\ LoopGuard(attempt, retries)
    /\ \E net \in AttemptInputs(args.build_url) :
         LET r == TryAttempt(fs, args.build_url, net)
         IN  /\ ~r.ok
             /\ fs' = r.fs
    /\ dl_log' = Append(dl_log, attempt + 1)
    /\ dl_events' = dl_events \o <<"fail", "wait">>
    /\ UNCHANGED <<auxVars, args, inst, perm, pc, mainVars, retries, attempt, dl_result>>
\* an attempt that raises: log the attempt number, sleep, count
DownloadAttemptFail ==
    /\ pc = "dl_loop"
    /\ LoopGuard(attempt, retries)
    /\ \E net \in AttemptInputs(args.build_url) :
         LET r == TryAttempt(fs, args.build_url, net)
         IN  /\ ~r.ok
             /\ fs' = r.fs
    /\ dl_log' = Append(dl_log, attempt + 1)
    /\ dl_events' = dl_events \o <<"fail", "wait">>
    /\ attempt' = attempt + 1
    /\ UNCHANGED <<auxVars, args, inst, perm, pc, mainVars, retries, dl_result>>

\* the while condition is false: "return False"
DownloadExhausted ==
    /\ pc = "dl_loop"
    /\ ~LoopGuard(attempt, retries)
    /\ dl_result' = FALSE
    /\ pc' = "dl_ret"
    /\ UNCHANGED <<auxVars, args, fs, inst, perm, mainVars, retries, attempt, dl_events, dl_log>>

\* --------------------------------------------------------- step functions
sanity_check(f, path) == IsFile(f, path) /\ GetSize(f, path) > 0

dest_installer_NoSuffix == <<"/tmp", "/", "app", "_installer">>
\* dest_installer = os.path.join("/tmp", f"{app_name}_installer.sh")
dest_installer == <<"/tmp", "/", "app", "_installer", ".sh">>
EndsWithSh(path) == path[Len(path)] = ".sh"

InstDirs == [kind : {"absent", "file"}, marker : {"none"}, extra : {FALSE}]
            \cup [kind : {"dir"}, marker : {"none", "1.0.0", "other"}, extra : BOOLEAN]

\* makedirs(install_dir, exist_ok=True) and open(version.txt, "w") both succeed
CanSimulate(i, pm) ==
    \/ i.kind = "absent" /\ pm.parent
    \/ i.kind = "dir" /\ pm.dir

\* the directory is made but version.txt is not written
SimulateInstall_NoMarker(i, pm) ==
    IF CanSimulate(i, pm)
    THEN [ret |-> 0, inst |-> [kind |-> "dir", marker |-> i.marker, extra |-> i.extra]]
    ELSE [ret |-> 1, inst |-> i]
\* lines 89-99
SimulateInstall(i, pm) ==
    IF CanSimulate(i, pm)
    THEN [ret |-> 0, inst |-> [kind |-> "dir", marker |-> "1.0.0", extra |-> i.extra]]
    ELSE [ret |-> 1, inst |-> i]

\* what running the installer script can do: how the shell ends (or
\* result.stdout.decode() raising) and what it leaves in the install directory
ExecOutcomes == [result : {"exit0", "nonzero", "timeout", "raise"},
                 effect : {"none", "installs", "mkdir"}]

ExecEffect(i, pm, e) ==
    IF e = "installs" /\ CanSimulate(i, pm)
    THEN [kind |-> "dir", marker |-> "1.0.0", extra |-> i.extra]
    ELSE IF e = "mkdir" /\ i.kind = "absent" /\ pm.parent
    THEN [kind |-> "dir", marker |-> "none", extra |-> FALSE]
    ELSE i

\* run_cmd: the return code, 1 for a timeout
run_cmd(x) == IF x.result = "exit0" THEN 0 ELSE 1

\* the installer's own failure is returned instead of falling back
silent_install_Propagate(installer_path, i, pm, dry_run, x) ==
    IF dry_run
    THEN [ret |-> 0, raised |-> FALSE, inst |-> i, via |-> "dry"]
    ELSE IF EndsWithSh(installer_path)
    THEN LET j == ExecEffect(i, pm, x.effect)
         IN  IF x.result = "raise"
             THEN [ret |-> -1, raised |-> TRUE, inst |-> j, via |-> "real"]
             ELSE [ret |-> run_cmd(x), raised |-> FALSE, inst |-> j, via |-> "real"]
    ELSE LET s == SimulateInstall(i, pm)
         IN  [ret |-> s.ret, raised |-> FALSE, inst |-> s.inst, via |-> "simulate"]
\* lines 67-99; ret is the returned code, raised tells that run_cmd raised
\* instead, via is the path taken through the function
silent_install(installer_path, i, pm, dry_run, x) ==
    IF dry_run
    THEN [ret |-> 0, raised |-> FALSE, inst |-> i, via |-> "dry"]
    ELSE IF EndsWithSh(installer_path)
    THEN LET j == ExecEffect(i, pm, x.effect)
         IN  IF x.result = "raise"
             THEN [ret |-> -1, raised |-> TRUE, inst |-> j, via |-> "real"]
             ELSE IF run_cmd(x) = 0
             THEN [ret |-> 0, raised |-> FALSE, inst |-> j, via |-> "real"]
             ELSE LET s == SimulateInstall(j, pm)
                  IN  [ret |-> s.ret, raised |-> FALSE, inst |-> s.inst, via |-> "fallback"]
    ELSE LET s == SimulateInstall(i, pm)
         IN  [ret |-> s.ret, raised |-> FALSE, inst |-> s.inst, via |-> "simulate"]

\* silent_install before it is called
NotCalled ==
    [called |-> FALSE, path |-> <<>>, dry_run |-> FALSE, exec |-> "none",
     ret |-> -1, raised |-> FALSE, via |-> "none", valid |-> "none"]
\* silent_install(path, install_dir, dry_run) returned r (or raised), the
\* installer, when it was run, having ended as x.result
Called(path, dry_run, x, r) ==
    [called |-> TRUE, path |-> path, dry_run |-> dry_run,
     exec |-> IF r.via \in {"real", "fallback"} THEN x.result ELSE "none",
     ret |-> r.ret, raised |-> r.raised, via |-> r.via, valid |-> "none"]

\* lines 101-107
validate_install(i) == i.kind = "dir" /\ i.marker # "none"

\* the tree is emptied but the directory itself is left, and true returned
uninstall_KeepsTop(i, pm) ==
    IF i.kind # "dir"
    THEN [ok |-> TRUE, inst |-> i]
    ELSE IF (i.marker # "none" \/ i.extra) /\ ~pm.dir
    THEN [ok |-> FALSE, inst |-> i]
    ELSE [ok |-> TRUE, inst |-> [kind |-> "dir", marker |-> "none", extra |-> FALSE]]
\* lines 109-124
uninstall(i, pm) ==
    IF i.kind # "dir"
    THEN [ok |-> TRUE, inst |-> i]
    ELSE IF (i.marker # "none" \/ i.extra) /\ ~pm.dir
    THEN [ok |-> FALSE, inst |-> i]
    ELSE IF ~pm.parent
    THEN [ok |-> FALSE, inst |-> [kind |-> "dir", marker |-> "none", extra |-> FALSE]]
    ELSE [ok |-> TRUE, inst |-> [kind |-> "absent", marker |-> "none", extra |-> FALSE]]

\* -------------------------------------------------------------------- main
SelectBranch_DryRunFirst(a) ==
    IF a.dry_run THEN "dry-run"
    ELSE IF a.uninstall THEN "uninstall"
    ELSE IF a.force_exception THEN "forced"
    ELSE "full"
SelectBranch_DryRunFallsThrough(a) ==
    IF a.uninstall THEN "uninstall"
    ELSE IF a.force_exception THEN "forced"
    ELSE "full"
\* the if / elif chain of lines 151-161
SelectBranch(a) ==
    IF a.uninstall THEN "uninstall"
    ELSE IF a.dry_run THEN "dry-run"
    ELSE IF a.force_exception THEN "forced"
    ELSE "full"

\* lines 151-163: enter one arm, up to its first call
ModeSelect ==
    /\ pc = "mode_select"
    /\ branch' = SelectBranch(args)
    /\ CASE branch' = "uninstall" ->
              /\ checks_run' = Append(checks_run, "uninstall")
              /\ calls' = Begin(calls, "uninstall")
              /\ pc' = "uninstall"
              /\ fault' = fault
         [] branch' = "dry-run" ->
              /\ checks_run' = Append(checks_run, "dry-run")
              /\ pc' = "final_status"
              /\ UNCHANGED <<calls, fault>>
         [] branch' = "forced" ->
              /\ fault' = "forced"
              /\ pc' = "except"
              /\ UNCHANGED <<checks_run, calls>>
         [] OTHER ->
              /\ checks_run' = Append(checks_run, "download")
              /\ calls' = Begin(calls, "download_installer")
              /\ pc' = "dl_loop"
              /\ fault' = fault
    /\ UNCHANGED <<auxVars, args, fs, inst, perm, status_code, summary, exit_code, dlVars>>

\* lines 153-155
UninstallStep ==
    /\ pc = "uninstall"
    /\ LET r == uninstall(inst, perm)
       IN  /\ inst' = r.inst
           /\ status_code' = IF r.ok THEN status_code ELSE EXIT_VALIDATE_FAIL
           /\ calls' = End(calls, IF r.ok THEN "ok" ELSE "fail")
    /\ pc' = "final_status"
    /\ UNCHANGED <<auxVars, args, fs, perm, checks_run, branch, fault, summary, exit_code, dlVars>>

\* a step reported failure: set its code and raise (lines 165-166, 170-171, ...)
StepFailed(code) ==
    /\ status_code' = code
    /\ fault' = "step_failure"
    /\ calls' = End(calls, "fail")
    /\ pc' = "except"
    /\ UNCHANGED checks_run

\* a step succeeded: append the next step's name and call it
StepPassed(name, fn, at) ==
    /\ checks_run' = Append(checks_run, name)
    /\ calls' = Begin(End(calls, "ok"), fn)
    /\ pc' = at
    /\ UNCHANGED <<status_code, fault>>

\* the raise of line 166 left out
AfterDownload_NoRaise ==
    /\ pc = "dl_ret"
    /\ status_code' = IF dl_result THEN status_code ELSE EXIT_DOWNLOAD_FAIL
    /\ checks_run' = Append(checks_run, "sanity-check")
    /\ calls' = Begin(End(calls, IF dl_result THEN "ok" ELSE "fail"), "sanity_check")
    /\ pc' = "sanity"
    /\ UNCHANGED <<auxVars, args, fs, inst, perm, branch, fault, summary, exit_code, dlVars>>
\* lines 164-168
AfterDownload ==
    /\ pc = "dl_ret"
    /\ IF ~dl_result
       THEN StepFailed(EXIT_DOWNLOAD_FAIL)
       ELSE StepPassed("sanity-check", "sanity_check", "sanity")
    /\ UNCHANGED <<auxVars, args, fs, inst, perm, branch, summary, exit_code, dlVars>>

\* the sanity failure is given the validation code
SanityStep_WrongCode ==
    /\ pc = "sanity"
    /\ IF ~sanity_check(fs, "dest")
       THEN StepFailed(EXIT_VALIDATE_FAIL)
       ELSE StepPassed("install", "silent_install", "install")
    /\ UNCHANGED <<auxVars, args, fs, inst, perm, branch, summary, exit_code, dlVars>>
\* lines 169-173
SanityStep ==
    /\ pc = "sanity"
    /\ IF ~sanity_check(fs, "dest")
       THEN StepFailed(EXIT_DOWNLOAD_FAIL)
       ELSE StepPassed("install", "silent_install", "install")
    /\ UNCHANGED <<auxVars, args, fs, inst, perm, branch, summary, exit_code, dlVars>>

\* lines 174-178
InstallStep ==
    /\ pc = "install"
    /\ \E x \in ExecOutcomes :
         LET r == silent_install(dest_installer, inst, perm, args.dry_run, x)
         IN  /\ inst' = r.inst
             /\ si' = Called(dest_installer, args.dry_run, x, r)
             /\ IF r.raised
                THEN /\ fault' = "step_raise"
                     /\ calls' = End(calls, "raise")
                     /\ pc' = "except"
                     /\ UNCHANGED <<checks_run, status_code>>
                ELSE IF r.ret # 0
                THEN StepFailed(EXIT_INSTALL_FAIL)
                ELSE StepPassed("validate", "validate_install", "validate")
    /\ UNCHANGED <<peer, args, fs, perm, branch, summary, exit_code, dlVars>>

\* lines 179-181
ValidateStep ==
    /\ pc = "validate"
    /\ IF ~validate_install(inst)
       THEN StepFailed(EXIT_VALIDATE_FAIL)
       ELSE /\ calls' = End(calls, "ok")
            /\ pc' = "final_status"
            /\ UNCHANGED <<checks_run, status_code, fault>>
    /\ UNCHANGED <<auxVars, args, fs, inst, perm, branch, summary, exit_code, dlVars>>

\* the summary is also written at the end of the try block
FinalStatus_AlsoWrites ==
    /\ pc = "final_status"
    /\ summary' = Append(summary, [status |-> IF status_code = EXIT_SUCCESS
                                                THEN "success" ELSE "failure",
                                   status_code |-> status_code,
                                   checks_run |-> checks_run])
    /\ pc' = "summary"
    /\ UNCHANGED <<auxVars, args, fs, inst, perm, checks_run, status_code, branch,
                   calls, fault, exit_code, dlVars>>
\* lines 183-184: the try block ends normally
FinalStatus ==
    /\ pc = "final_status"
    /\ pc' = "summary"
    /\ UNCHANGED <<auxVars, args, fs, inst, perm, mainVars, dlVars>>

HandlerCode_Overwrite(sc) == EXIT_EXCEPTION
HandlerCode_NoFallback(sc) == sc
\* lines 188-189
HandlerCode(sc) == IF sc = EXIT_SUCCESS THEN EXIT_EXCEPTION ELSE sc

\* the exception is not contained: the process ends in the traceback
ExceptHandler_Reraise ==
    /\ pc = "except"
    /\ pc' = "done"
    /\ exit_code' = 1
    /\ UNCHANGED <<auxVars, args, fs, inst, perm, checks_run, status_code, branch, calls,
                   fault, summary, dlVars>>
\* lines 186-189
ExceptHandler ==
    /\ pc = "except"
    /\ status_code' = HandlerCode(status_code)
    /\ pc' = "summary"
    /\ UNCHANGED <<auxVars, args, fs, inst, perm, checks_run, branch, calls, fault,
                   summary, exit_code, dlVars>>

StatusText_OnlyException(sc) == IF sc = EXIT_EXCEPTION THEN "failure" ELSE "success"
StatusText(sc) == IF sc = EXIT_SUCCESS THEN "success" ELSE "failure"

\* lines 191-203
WriteSummary ==
    /\ pc = "summary"
    /\ summary' = Append(summary, [status |-> StatusText(status_code),
                                   status_code |-> status_code,
                                   checks_run |-> checks_run])
    /\ pc' = "exit"
    /\ UNCHANGED <<auxVars, args, fs, inst, perm, checks_run, status_code, branch, calls,
                   fault, exit_code, dlVars>>

\* line 205
Exit ==
    /\ pc = "exit"
    /\ exit_code' = status_code
    /\ pc' = "done"
    /\ UNCHANGED <<auxVars, args, fs, inst, perm, checks_run, status_code, branch, calls,
                   fault, summary, dlVars>>

\* no second invocation is running
NoPeer == [same_app |-> FALSE, build_url |-> "http", pc |-> "off", attempt |-> 0]

\* ------------------------------------------------------------ initial states
FsInits ==
    {[p \in Paths |-> CASE p = "src" -> s [] p = "dest" -> d [] OTHER -> o] :
        s \in {Absent} \cup {File(c) : c \in Contents},
        d \in {Absent, Link("src"), Link("old")} \cup {File(c) : c \in Contents},
        o \in {Absent, File(MaxContent)}}

Perms == [parent : BOOLEAN, dir : BOOLEAN]

ArgSets == [build_url : Locators, uninstall : BOOLEAN, dry_run : BOOLEAN,
            force_exception : BOOLEAN]

\* the process after argument parsing and logger setup (lines 135-148)
Init ==
    /\ args \in ArgSets
    /\ fs \in FsInits
    /\ inst \in InstDirs
    /\ perm \in Perms
    /\ inst.kind # "dir" => perm.dir
    /\ pc = "mode_select"
    /\ checks_run = <<>>
    /\ status_code = EXIT_SUCCESS
    /\ branch = "none"
    /\ calls = <<>>
    /\ fault = "none"
    /\ summary = <<>>
    /\ exit_code = -1
    /\ retries = DefaultRetries
    /\ attempt = 0
    /\ dl_events = <<>>
    /\ dl_log = <<>>
    /\ dl_result = FALSE
    /\ si = NotCalled
    /\ peer = NoPeer

Next ==
    \/ ModeSelect
    \/ UninstallStep
    \/ DownloadAttemptOk
    \/ DownloadAttemptFail
    \/ DownloadExhausted
    \/ AfterDownload
    \/ SanityStep
    \/ InstallStep
    \/ ValidateStep
    \/ FinalStatus
    \/ ExceptHandler
    \/ WriteSummary
    \/ Exit

Spec == Init /\ [][Next]_vars

\* the interpreter keeps running the process until sys.exit
LiveSpec == Spec /\ WF_vars(Next)

\* download_installer called on its own with any retries argument
InitDL ==
    /\ args \in [build_url : Locators, uninstall : {FALSE}, dry_run : {FALSE},
                 force_exception : {FALSE}]
    /\ fs \in FsInits
    /\ inst = [kind |-> "absent", marker |-> "none", extra |-> FALSE]
    /\ perm = [parent |-> TRUE, dir |-> TRUE]
    /\ pc = "dl_loop"
    /\ checks_run = <<>>
    /\ status_code = EXIT_SUCCESS
    /\ branch = "none"
    /\ calls = <<>>
    /\ fault = "none"
    /\ summary = <<>>
    /\ exit_code = -1
    /\ retries \in 0..MaxRetries
    /\ attempt = 0
    /\ dl_events = <<>>
    /\ dl_log = <<>>
    /\ dl_result = FALSE
    /\ si = NotCalled
    /\ peer = NoPeer

NextDL ==
    \/ DownloadAttemptOk
    \/ DownloadAttemptFail
    \/ DownloadExhausted

SpecDL == InitDL /\ [][NextDL]_vars

\* silent_install called on its own, with any artifact name and dry_run flag,
\* and validate_install called after it returned 0
InstallerPaths == {dest_installer, <<"/opt", "/", "pkg", ".run">>}

InitSI ==
    /\ args = [build_url |-> "src", uninstall |-> FALSE, dry_run |-> FALSE,
               force_exception |-> FALSE]
    /\ fs = [p \in Paths |-> Absent]
    /\ inst \in InstDirs
    /\ perm \in Perms
    /\ inst.kind # "dir" => perm.dir
    /\ pc = "si_call"
    /\ checks_run = <<>>
    /\ status_code = EXIT_SUCCESS
    /\ branch = "none"
    /\ calls = <<>>
    /\ fault = "none"
    /\ summary = <<>>
    /\ exit_code = -1
    /\ retries = DefaultRetries
    /\ attempt = 0
    /\ dl_events = <<>>
    /\ dl_log = <<>>
    /\ dl_result = FALSE
    /\ si \in {[NotCalled EXCEPT !.path = p, !.dry_run = d] :
                  p \in InstallerPaths, d \in BOOLEAN}
    /\ peer = NoPeer

SilentInstallCall ==
    /\ pc = "si_call"
    /\ \E x \in ExecOutcomes :
         LET r == silent_install(si.path, inst, perm, si.dry_run, x)
         IN  /\ inst' = r.inst
             /\ si' = Called(si.path, si.dry_run, x, r)
    /\ pc' = "si_ret"
    /\ UNCHANGED <<peer, args, fs, perm, mainVars, dlVars>>

ValidateCall ==
    /\ pc = "si_ret"
    /\ ~si.raised
    /\ si.ret = 0
    /\ si' = [si EXCEPT !.valid = IF validate_install(inst) THEN "yes" ELSE "no"]
    /\ pc' = "va_ret"
    /\ UNCHANGED <<peer, args, fs, inst, perm, mainVars, dlVars>>

NextSI ==
    \/ SilentInstallCall
    \/ ValidateCall

SpecSI == InitSI /\ [][NextSI]_vars

\* two invocations at the same time, with different install directories: the
\* second one's download_installer works on /tmp/<app-name>_installer.sh as
\* well when it was given the same --app-name (line 162)
Peers == [same_app : BOOLEAN, build_url : {"http", "old"}, pc : {"download"},
          attempt : {0}]

InitConc ==
    /\ args \in ArgSets
    /\ fs \in {[p \in Paths |-> CASE p = "src" -> File(1)
                                 [] p = "dest" -> Absent
                                 [] OTHER -> o] : o \in {Absent, File(MaxContent)}}
    /\ inst \in {[kind |-> "absent", marker |-> "none", extra |-> FALSE],
                 [kind |-> "dir", marker |-> "1.0.0", extra |-> TRUE]}
    /\ perm = [parent |-> TRUE, dir |-> TRUE]
    /\ pc = "mode_select"
    /\ checks_run = <<>>
    /\ status_code = EXIT_SUCCESS
    /\ branch = "none"
    /\ calls = <<>>
    /\ fault = "none"
    /\ summary = <<>>
    /\ exit_code = -1
    /\ retries = DefaultRetries
    /\ attempt = 0
    /\ dl_events = <<>>
    /\ dl_log = <<>>
    /\ dl_result = FALSE
    /\ si = NotCalled
    /\ peer \in Peers

\* one attempt of the second invocation's download_installer (lines 39-58)
PeerAttempt ==
    /\ peer.pc = "download"
    /\ LoopGuard(peer.attempt, DefaultRetries)
    /\ IF peer.same_app
       THEN \E net \in AttemptInputs(peer.build_url) :
              LET r == TryAttempt(fs, peer.build_url, net)
              IN  /\ fs' = r.fs
                  /\ peer' = IF r.ok THEN [peer EXCEPT !.pc = "done"]
                                     ELSE [peer EXCEPT !.attempt = @ + 1]
       ELSE /\ fs' = fs
            /\ peer' \in {[peer EXCEPT !.pc = "done"], [peer EXCEPT !.attempt = @ + 1]}
    /\ UNCHANGED <<si, args, inst, perm, pc, mainVars, dlVars>>

\* the second invocation's download_installer gives up (line 59)
PeerExhausted ==
    /\ peer.pc = "download"
    /\ ~LoopGuard(peer.attempt, DefaultRetries)
    /\ peer' = [peer EXCEPT !.pc = "done"]
    /\ UNCHANGED <<si, args, fs, inst, perm, pc, mainVars, dlVars>>

NextConc ==
    \/ Next
    \/ PeerAttempt
    \/ PeerExhausted

SpecConc == InitConc /\ [][NextConc]_vars

\* ================================================================= claims
NumOf(seq, v) == Cardinality({i \in DOMAIN seq : seq[i] = v})
Attempts == NumOf(dl_events, "ok") + NumOf(dl_events, "fail")
FullNames == <<"download", "sanity-check", "install", "validate">>
FullSteps == <<"download_installer", "sanity_check", "silent_install", "validate_install">>
SpecificCodes == {EXIT_DOWNLOAD_FAIL, EXIT_INSTALL_FAIL, EXIT_VALIDATE_FAIL}

C2_ModePriority ==
    branch # "none" =>
      /\ args.uninstall => branch = "uninstall"
      /\ ~args.uninstall /\ args.dry_run => branch = "dry-run"
      /\ ~args.uninstall /\ ~args.dry_run /\ args.force_exception => branch = "forced"
      /\ ~args.uninstall /\ ~args.dry_run /\ ~args.force_exception => branch = "full"
      /\ \A i \in DOMAIN calls :
           CASE branch = "uninstall" -> calls[i].step = "uninstall"
             [] branch = "full" -> calls[i].step \in {FullSteps[k] : k \in 1..4}
             [] OTHER -> FALSE
      /\ \A i \in DOMAIN checks_run :
           CASE branch = "uninstall" -> checks_run[i] = "uninstall"
             [] branch = "dry-run" -> checks_run[i] = "dry-run"
             [] branch = "full" -> checks_run[i] \in {FullNames[k] : k \in 1..4}
             [] OTHER -> FALSE

C2_Witness ==
    /\ pc = "done"
    /\ args.uninstall /\ args.dry_run /\ args.force_exception
    /\ branch = "uninstall"
    /\ checks_run = <<"uninstall">>

\* C3: in the full-verify branch the steps are called in the order download,
\* sanity-check, install, validate, a step is called only when every earlier
\* one succeeded, nothing is called or appended after a failing step, and a
\* failed download ends with checks_run = ["download"] and exit code 2.
C3_ShortCircuit ==
    branch = "full" =>
      /\ Len(calls) = Len(checks_run)
      /\ Len(calls) <= 4
      /\ \A i \in DOMAIN calls :
           /\ calls[i].step = FullSteps[i]
           /\ checks_run[i] = FullNames[i]
           /\ i < Len(calls) => calls[i].result = "ok"
      /\ (pc = "done" /\ calls[1].result = "fail") =>
           /\ checks_run = <<"download">>
           /\ exit_code = EXIT_DOWNLOAD_FAIL

C3_Witness ==
    /\ pc = "done"
    /\ branch = "full"
    /\ checks_run = <<"download", "sanity-check", "install">>
    /\ calls[3].result = "fail"
    /\ exit_code = EXIT_INSTALL_FAIL

\* C4: the status code becomes 9 only in the except handler and only when it
\* was still 0 there; a code of 2, 3 or 4 is never changed afterwards; the
\* process ends with 9 exactly when an exception was raised that no step had
\* classified.
C4_GenericCodeIsFallback ==
    /\ [](pc = "done" =>
            (exit_code = EXIT_EXCEPTION <=> fault \in {"forced", "step_raise"}))
    /\ [][(status_code' = EXIT_EXCEPTION /\ status_code # EXIT_EXCEPTION)
            => (pc = "except" /\ status_code = EXIT_SUCCESS)]_vars
    /\ [][(status_code \in SpecificCodes) => (status_code' = status_code)]_vars

C4_Witness ==
    /\ pc = "done"
    /\ fault = "step_failure"
    /\ exit_code = EXIT_VALIDATE_FAIL

DefaultMode == ~args.uninstall /\ ~args.dry_run /\ ~args.force_exception
\* build_url is a local path naming a non-empty regular file
LocalValid ==
    /\ ~StartsWithHttp(args.build_url)
    /\ IsFile(fs, args.build_url)
    /\ GetSize(fs, args.build_url) > 0
\* build_url is a local path that is missing or zero-length
LocalInvalid ==
    /\ ~StartsWithHttp(args.build_url)
    /\ ~(IsFile(fs, args.build_url) /\ GetSize(fs, args.build_url) > 0)
InstallDirWritable == perm.parent /\ perm.dir /\ inst.kind # "file"

\* C5: a default-mode run on a valid non-empty local artifact and a writable
\* install directory ends with exit code 0, summary status "success" and
\* checks_run = [download, sanity-check, install, validate], whatever the
\* installer does when executed.
C5_ScenarioA ==
    (pc = "done" /\ DefaultMode /\ LocalValid /\ InstallDirWritable) =>
      /\ exit_code = EXIT_SUCCESS
      /\ summary[1].status = "success"
      /\ checks_run = FullNames

\* C6 as stated: every invocation with --force-exception ends with exit code
\* 9, summary status "failure" and an empty checks_run.
C6_AnyForceException ==
    (pc = "done" /\ args.force_exception) =>
      /\ exit_code = EXIT_EXCEPTION
      /\ summary[1].status = "failure"
      /\ checks_run = <<>>

\* C6: an invocation with --force-exception and neither --uninstall nor
\* --dry-run never appends a step name nor calls a step, and ends with exit
\* code 9, summary status "failure" and checks_run = [].
C6_ForcedFault ==
    (args.force_exception /\ ~args.uninstall /\ ~args.dry_run) =>
      /\ checks_run = <<>>
      /\ calls = <<>>
      /\ pc = "done" =>
           /\ exit_code = EXIT_EXCEPTION
           /\ summary = <<[status |-> "failure", status_code |-> EXIT_EXCEPTION,
                           checks_run |-> <<>>]>>

C6_Witness ==
    /\ pc = "done"
    /\ args.force_exception /\ ~args.uninstall /\ ~args.dry_run
    /\ fault = "forced"
    /\ exit_code = EXIT_EXCEPTION

IsAttempt(e) == e \in {"ok", "fail"}

\* C7: for a local source that is missing or zero-length, download_installer
\* returns false after exactly retries + 1 attempts, logged with the attempt
\* numbers 1..retries+1, with a wait between any two consecutive attempts.
C7_InvalidLocalExhaustsRetries ==
    (pc = "dl_ret" /\ LocalInvalid) =>
      /\ dl_result = FALSE
      /\ Attempts = retries + 1
      /\ NumOf(dl_events, "fail") = retries + 1
      /\ dl_log = [i \in 1..(retries + 1) |-> i]
      /\ \A i, j \in DOMAIN dl_events :
           (i < j /\ IsAttempt(dl_events[i]) /\ IsAttempt(dl_events[j])) =>
             \E k \in (i + 1)..(j - 1) : dl_events[k] = "wait"

C7_Witness ==
    /\ pc = "dl_ret"
    /\ LocalInvalid
    /\ retries > 0
    /\ dl_log = [i \in 1..(retries + 1) |-> i]

\* C8 as stated: for a local source that is missing or zero-length,
\* download_installer returns false after a single attempt, without any wait.
C8_FailsImmediately ==
    (pc = "dl_ret" /\ LocalInvalid) =>
      /\ dl_result = FALSE
      /\ Attempts = 1
      /\ NumOf(dl_events, "wait") = 0

\* C8: for a local source that is missing or zero-length, every attempt
\* fails at once, leaving the file system untouched, and is followed by a
\* wait; download_installer returns, with false, only when retries + 1 such
\* attempts and waits have been made.
C8_EachAttemptFailsUntouched ==
    [][(pc = "dl_loop" /\ LocalInvalid) =>
         /\ fs' = fs
         /\ NumOf(dl_events', "ok") = 0
         /\ NumOf(dl_events', "wait") = NumOf(dl_events', "fail")
         /\ pc' = "dl_ret" =>
              /\ dl_result' = FALSE
              /\ NumOf(dl_events', "fail") = retries + 1
              /\ NumOf(dl_events', "wait") = retries + 1]_vars

C8_Witness ==
    /\ pc = "dl_ret"
    /\ LocalInvalid
    /\ args.build_url = "src"
    /\ fs["dest"].kind = "file"
    /\ NumOf(dl_events, "wait") = retries + 1
    /\ retries > 0

\* C9: for a valid non-empty local source and any prior state of the
\* destination, download_installer returns true after one attempt and
\* reading through the destination yields the source's content.
C9_LocalRoundTrip ==
    (pc = "dl_ret" /\ LocalValid) =>
      /\ dl_result = TRUE
      /\ Attempts = 1
      /\ ReadThrough(fs, "dest") = ReadThrough(fs, args.build_url)

\* C10: download_installer never makes more than retries + 1 attempts, makes
\* no attempt after a successful one, and returns true exactly when some
\* attempt succeeded, false exactly when retries + 1 attempts failed.
C10_BoundedAttempts ==
    /\ Attempts <= retries + 1
    /\ \A i \in DOMAIN dl_events : dl_events[i] = "ok" => i = Len(dl_events)
    /\ pc = "dl_ret" =>
         /\ dl_result <=> NumOf(dl_events, "ok") = 1
         /\ ~dl_result <=> NumOf(dl_events, "fail") = retries + 1

C10_Witness ==
    /\ pc = "dl_ret"
    /\ dl_result
    /\ NumOf(dl_events, "fail") > 0
    /\ Attempts <= retries + 1

C12_AnySuccessValidates ==
    (si.called /\ ~si.dry_run /\ si.ret = 0 /\ si.valid # "none") =>
      si.valid = "yes"

\* C12: whenever silent_install with dry_run false returned 0 because the
\* simulation succeeded (after a failed execution or for a non-script), the
\* install directory and version.txt exist and validate_install returns true.
C12_SimulatedSuccessValidates ==
    (si.called /\ ~si.dry_run /\ si.ret = 0
       /\ si.via \in {"fallback", "simulate"}) =>
      /\ inst.kind = "dir"
      /\ inst.marker = "1.0.0"
      /\ validate_install(inst)
      /\ si.valid # "no"

C12_Witness ==
    /\ pc = "va_ret"
    /\ si.via = "fallback"
    /\ si.exec = "nonzero"
    /\ si.valid = "yes"

\* the removal of a directory tree meets a file system error
UninstallError ==
    /\ inst.kind = "dir"
    /\ \/ (inst.marker # "none" \/ inst.extra) /\ ~perm.dir
       \/ ~perm.parent

\* C13: uninstall returns true exactly when no file system error occurred;
\* when it returns true for an existing install directory the directory is
\* gone afterwards; when the directory does not exist it returns true and
\* changes nothing. In uninstall mode the run ends with checks_run =
\* [uninstall] and exit code 0 after true, 4 after false.
C13_Uninstall ==
    /\ [][pc = "uninstall" =>
            LET ok == calls'[1].result = "ok"
            IN  /\ calls'[1].result \in {"ok", "fail"}
                /\ ok <=> ~UninstallError
                /\ inst.kind # "dir" => (ok /\ inst' = inst)
                /\ (ok /\ inst.kind = "dir") => inst'.kind = "absent"]_vars
    /\ []((pc = "done" /\ branch = "uninstall") =>
            /\ checks_run = <<"uninstall">>
            /\ calls[1].result = "ok" => exit_code = EXIT_SUCCESS
            /\ calls[1].result = "fail" => exit_code = EXIT_VALIDATE_FAIL)

C13_Witness ==
    /\ pc = "done"
    /\ branch = "uninstall"
    /\ calls[1].result = "fail"
    /\ inst = [kind |-> "dir", marker |-> "none", extra |-> FALSE]
    /\ exit_code = EXIT_VALIDATE_FAIL

\* C14: an invocation with dry-run set and uninstall not set calls no step
\* function, never changes the working artifact path or the install
\* directory, and ends with exit code 0 and checks_run = [dry-run].
C14_DryRunOnlySimulates ==
    /\ [][(args.dry_run /\ ~args.uninstall) => (fs' = fs /\ inst' = inst)]_vars
    /\ []((args.dry_run /\ ~args.uninstall) =>
            /\ calls = <<>>
            /\ ~si.called
            /\ pc = "done" =>
                 /\ exit_code = EXIT_SUCCESS
                 /\ checks_run = <<"dry-run">>)

C14_Witness ==
    /\ pc = "done"
    /\ args.dry_run /\ ~args.uninstall /\ args.force_exception
    /\ checks_run = <<"dry-run">>
    /\ exit_code = EXIT_SUCCESS

\* C15: the summary is written at most once, only when no step is running
\* any more; once it is written no step runs and checks_run, the status
\* code and the summary never change; the process exits with the status
\* code that was written.
C15_SummaryOnce ==
    /\ [](Len(summary) <= 1)
    /\ [](Len(summary) = 1 =>
            /\ pc \in {"exit", "done"}
            /\ \A i \in DOMAIN calls : calls[i].result # "running")
    /\ [][Len(summary) = 1 =>
            UNCHANGED <<checks_run, status_code, calls, summary, fs, inst>>]_vars
    /\ [](pc = "done" =>
            /\ Len(summary) = 1
            /\ summary[1].status_code = exit_code
            /\ summary[1].checks_run = checks_run)

C15_Witness ==
    /\ pc = "done"
    /\ Len(summary) = 1
    /\ summary[1].status_code = EXIT_DOWNLOAD_FAIL
    /\ exit_code = EXIT_DOWNLOAD_FAIL

\* C16: when the process has ended its exit code is one of 0, 2, 3, 4, 9,
\* the summary's status_code is that code, and the summary's status is
\* "success" exactly when the code is 0, "failure" otherwise.
C16_RecognisedCodes ==
    pc = "done" =>
      /\ exit_code \in {EXIT_SUCCESS, EXIT_DOWNLOAD_FAIL, EXIT_INSTALL_FAIL,
                        EXIT_VALIDATE_FAIL, EXIT_EXCEPTION}
      /\ summary[1].status_code = exit_code
      /\ summary[1].status = "success" <=> exit_code = EXIT_SUCCESS
      /\ summary[1].status = "failure" <=> exit_code # EXIT_SUCCESS

C16_Witness ==
    /\ pc = "done"
    /\ branch = "uninstall"
    /\ exit_code = EXIT_VALIDATE_FAIL
    /\ summary[1].status = "failure"

StepCode == <<EXIT_DOWNLOAD_FAIL, EXIT_DOWNLOAD_FAIL, EXIT_INSTALL_FAIL, EXIT_VALIDATE_FAIL>>

\* C17: in the full-verify branch checks_run is always a prefix of
\* [download, sanity-check, install, validate]; a step that is called has
\* its name listed already; a step that reported failure is the last one
\* listed and the status code is the one of that step (2, 2, 3, 4); the run
\* ends with code 0 only with all four listed and validate true.
C17_ChecksRunPrefix ==
    branch = "full" =>
      /\ Len(checks_run) <= 4
      /\ \A i \in DOMAIN checks_run : checks_run[i] = FullNames[i]
      /\ Len(calls) = Len(checks_run)
      /\ \A i \in DOMAIN calls :
           calls[i].result = "fail" =>
             /\ i = Len(checks_run)
             /\ status_code = StepCode[i]
      /\ fault = "step_failure" => calls[Len(calls)].result = "fail"
      /\ (pc = "done" /\ exit_code = EXIT_SUCCESS) =>
           /\ checks_run = FullNames
           /\ calls[4].result = "ok"

C17_Witness ==
    /\ pc = "done"
    /\ branch = "full"
    /\ checks_run = <<"download", "sanity-check">>
    /\ calls[2].result = "fail"
    /\ exit_code = EXIT_DOWNLOAD_FAIL

\* C20: in a run of main the install step is entered only in the full-verify
\* branch, with dry_run false and a working artifact path ending in ".sh":
\* silent_install always runs the script, and simulates only after that
\* failed; its dry-run return and its non-script simulation are not taken.
C20_AlwaysRealExecution ==
    /\ pc = "install" =>
         /\ branch = "full"
         /\ ~args.dry_run
         /\ EndsWithSh(dest_installer)
    /\ si.called =>
         /\ ~si.dry_run
         /\ EndsWithSh(si.path)
         /\ si.via \in {"real", "fallback"}
         /\ si.exec # "none"

C20_Witness ==
    /\ pc = "done"
    /\ si.called
    /\ si.via = "fallback"
    /\ si.exec = "nonzero"
    /\ exit_code = EXIT_SUCCESS

\* C18: an invocation running next to another one that uses a different
\* install directory ends as it does alone. Started in default mode with a
\* valid local artifact and a free working path it passes download and
\* sanity check when alone; started on the missing working path itself it
\* ends alone with a download failure and checks_run = [download].
C18_SameAsAlone ==
    (pc = "done" /\ DefaultMode) =>
      /\ args.build_url = "src" =>
           /\ exit_code # EXIT_DOWNLOAD_FAIL
           /\ Len(checks_run) >= 3
      /\ args.build_url = "dest" =>
           /\ exit_code = EXIT_DOWNLOAD_FAIL
           /\ checks_run = <<"download">>

\* C19: when download_installer has returned, every wait in it was followed
\* by another attempt, so a call that made n attempts made at most n - 1
\* waits, and a false return comes directly after the last failed attempt.
C19_WaitOnlyBeforeRetry ==
    pc = "dl_ret" =>
      /\ \A i \in DOMAIN dl_events :
           dl_events[i] = "wait" =>
             (i < Len(dl_events) /\ IsAttempt(dl_events[i + 1]))
      /\ Attempts >= 1 => NumOf(dl_events, "wait") <= Attempts - 1
      /\ (~dl_result /\ Len(dl_events) > 0) => dl_events[Len(dl_events)] = "fail"

====
